---- MODULE Spec2Model ----
(***************************************************************************)
(* Model of the recipe organiser's Dewey classification engine: the code   *)
(* grammar (level, parent), the sequence allocator, the hierarchy tag      *)
(* projection of the recipe form, and the category administration (store,  *)
(* HTTP client, server routes, SQLite tables).                             *)
(*                                                                         *)
(* Strings are sequences of characters; a character is its ASCII code      *)
(* minus the code of '0', so the digits are 0..9, '.' is -2 and ' ' is -16 *)
(* and comparing characters compares their code points.                    *)
(* JavaScript's undefined and '' are both the empty sequence: every reader *)
(* of an optional code in the source tests it with !x or x || y.           *)
(***************************************************************************)
EXTENDS Integers, Sequences, FiniteSets, TLC

Dot == -2
Space == -16
LetterA == 49
LetterB == 50
LetterC == 51
LetterN == 30
Comma == -4
Newline == -38

Undefined == <<>>

IsDigit(c) == c \in 0..9

\* ---------------------------------------------------------------- bounds
MaxCodeLen == 7
MaxRecipes == 3
MaxTags == 2
MaxCategories == 2
MaxStoreLen == 3
MaxTreeCategories == 4
MaxUploadRows == 2
MaxServerCalls == 2

\* ------------------------------------------------------ string primitives
\* String.prototype.includes
includes(s, c) == \E i \in 1..Len(s) : s[i] = c

\* String.prototype.lastIndexOf, 1-based; 0 when c does not occur
lastIndexOf(s, c) ==
  IF includes(s, c)
  THEN CHOOSE i \in 1..Len(s) : s[i] = c /\ \A j \in (i+1)..Len(s) : s[j] # c
  ELSE 0

\* String.prototype.indexOf, 1-based; 0 when c does not occur
indexOf(s, c) ==
  IF includes(s, c)
  THEN CHOOSE i \in 1..Len(s) : s[i] = c /\ \A j \in 1..(i-1) : s[j] # c
  ELSE 0

\* s.slice(0, -1)
dropLast(s) == SubSeq(s, 1, Len(s) - 1)

\* String.prototype.startsWith
startsWith(s, p) == Len(p) <= Len(s) /\ SubSeq(s, 1, Len(p)) = p

\* String.prototype.split on one character
RECURSIVE split(_, _)
split(s, c) ==
  IF ~includes(s, c) THEN <<s>>
  ELSE LET i == indexOf(s, c)
       IN <<SubSeq(s, 1, i - 1)>> \o split(SubSeq(s, i + 1, Len(s)), c)

\* String.prototype.trim for the space character
RECURSIVE trim(_)
trim(s) ==
  IF s = <<>> THEN s
  ELSE IF Head(s) = Space THEN trim(Tail(s))
  ELSE IF s[Len(s)] = Space THEN trim(dropLast(s))
  ELSE s

\* Code-point order of two strings (SQLite BINARY collation; localeCompare
\* agrees with it on strings of digits and dots)
RECURSIVE lexLess(_, _)
lexLess(a, b) ==
  IF b = <<>> THEN FALSE
  ELSE IF a = <<>> THEN TRUE
  ELSE IF Head(a) # Head(b) THEN Head(a) < Head(b)
  ELSE lexLess(Tail(a), Tail(b))

\* -------------------------------------------------------- number <-> text
NaN == -1
NaNString == <<LetterN, LetterA, LetterN>>

\* The longest prefix of digits of s
RECURSIVE digitPrefix(_)
digitPrefix(s) ==
  IF s = <<>> \/ ~IsDigit(Head(s)) THEN <<>>
  ELSE <<Head(s)>> \o digitPrefix(Tail(s))

RECURSIVE digitsValue(_)
digitsValue(s) ==
  IF s = <<>> THEN 0 ELSE 10 * digitsValue(dropLast(s)) + s[Len(s)]

\* parseInt(s, 10) on a string of digits and dots: NaN without a leading digit
parseInt(s) ==
  IF digitPrefix(s) = <<>> THEN NaN ELSE digitsValue(digitPrefix(s))

\* Number.prototype.toString for n >= 0
RECURSIVE toString(_)
toString(n) ==
  IF n < 10 THEN <<n>> ELSE toString(n \div 10) \o <<n % 10>>

\* s.padStart(3, '0')
RECURSIVE padStart3(_)
padStart3(s) == IF Len(s) >= 3 THEN s ELSE padStart3(<<0>> \o s)

\* ------------------------------------------------------------ code grammar
\* A level that counts the dots instead of the digits
getDeweyLevelCountingDots(deweyCode) ==
  IF deweyCode = <<>> THEN 1
  ELSE Cardinality({i \in 1..Len(deweyCode) : deweyCode[i] = Dot}) + 1

\* getDeweyLevel of the admin page
getDeweyLevel(deweyCode) ==
  IF deweyCode = <<>> THEN 1
  ELSE IF includes(deweyCode, Dot)
  THEN LET parts == split(deweyCode, Dot)
           beforeDot == parts[1]
           afterDot == parts[2]
       IN Len(beforeDot) + Len(afterDot)
  ELSE Len(deweyCode)

\* A parent that always cuts at the last dot and knows no digit hierarchy
getDeweyParentCodeCutAtDot(deweyCode) ==
  IF deweyCode = <<>> \/ ~includes(deweyCode, Dot) THEN Undefined
  ELSE SubSeq(deweyCode, 1, lastIndexOf(deweyCode, Dot) - 1)

\* getDeweyParentCode of the admin page
getDeweyParentCode(deweyCode) ==
  IF deweyCode = <<>> THEN Undefined
  ELSE IF includes(deweyCode, Dot)
  THEN LET lastDotIndex == lastIndexOf(deweyCode, Dot)
           beforeDot == SubSeq(deweyCode, 1, lastDotIndex - 1)
           afterDot == SubSeq(deweyCode, lastDotIndex + 1, Len(deweyCode))
       IN IF Len(afterDot) > 1
          THEN beforeDot \o <<Dot>> \o dropLast(afterDot)
          ELSE beforeDot
  ELSE IF Len(deweyCode) <= 1 THEN Undefined
  ELSE dropLast(deweyCode)

\* A form copy that drifted: it drops the whole fraction at once
getDeweyParentDrifted(deweyCode) ==
  IF deweyCode = <<>> THEN Undefined
  ELSE IF includes(deweyCode, Dot)
  THEN SubSeq(deweyCode, 1, lastIndexOf(deweyCode, Dot) - 1)
  ELSE IF Len(deweyCode) <= 1 THEN Undefined
  ELSE dropLast(deweyCode)

\* getDeweyParent of the recipe form
getDeweyParent(deweyCode) ==
  IF deweyCode = <<>> THEN Undefined
  ELSE IF includes(deweyCode, Dot)
  THEN LET lastDotIndex == lastIndexOf(deweyCode, Dot)
           beforeDot == SubSeq(deweyCode, 1, lastDotIndex - 1)
           afterDot == SubSeq(deweyCode, lastDotIndex + 1, Len(deweyCode))
       IN IF Len(afterDot) > 1
          THEN beforeDot \o <<Dot>> \o dropLast(afterDot)
          ELSE beforeDot
  ELSE IF Len(deweyCode) <= 1 THEN Undefined
  ELSE dropLast(deweyCode)

\* ------------------------------------------------------------------ state
VARIABLES
  gCode,        \* grammar: the code under examination
  gLevel,       \* grammar: getDeweyLevel(gCode), -1 until computed
  gParent,      \* grammar: <<done, getDeweyParentCode(gCode)>>
  gFormParent,  \* grammar: <<done, getDeweyParent(gCode)>>
  gParentLevel, \* grammar: getDeweyLevel of the computed parent, -1 until computed
  lastOp,       \* the operation that ran last
  dbRecipes,    \* table recipes: the rows, as [id, deweyDecimal]
  nextRecipeId, \* table recipes: the next AUTOINCREMENT id
  seqBase,      \* getNextDeweySequence: the base code of the last call
  seqResult,    \* getNextDeweySequence: the string the last call returned
  recipeForm,   \* RecipeForm over the store: [tags, deweyDecimal, tagsBefore]
  recipeFormDb, \* RecipeForm over RecipeDB: [tags, deweyDecimal, tagsBefore]
  deweyCategories, \* the category list the client holds (store / page state)
  dbCategories, \* table dewey_categories: the rows
  nextCategoryId, \* table dewey_categories: the next AUTOINCREMENT id
  opResult,     \* what the last category operation did
  selectedBaseCode, \* DeweyAutoSelector: the code picked in the selector
  nextSequence, \* DeweyAutoSelector: the sequence code on offer, <<>> for none
  sequenceRequests, \* GET /api/dewey/next-sequence requests in flight
  serverCache,  \* db.tsx cache entry 'getAllDeweyCategories': [has, value]
  serverCalls,  \* RecipeDB calls of the server that are past their query
  deweyCategoriesLoaded,  \* store flag
  deweyCategoriesLoading, \* store flag
  fetchesInFlight \* GET /api/dewey requests of the store not yet answered

gvars == <<gCode, gLevel, gParent, gFormParent, gParentLevel>>

rvars == <<dbRecipes, nextRecipeId, seqBase, seqResult>>

fvars == <<recipeForm, recipeFormDb>>

avars == <<deweyCategories, dbCategories, nextCategoryId, opResult>>

svars == <<selectedBaseCode, nextSequence, sequenceRequests>>

cvars == <<serverCache, serverCalls>>

lvars == <<deweyCategoriesLoaded, deweyCategoriesLoading, fetchesInFlight>>

vars == <<gvars, lastOp, rvars, fvars, avars, svars, cvars, lvars>>

\* ------------------------------------------------- grammar specification
GrammarChars == {0, 1, Dot}

RECURSIVE StringsUpTo(_, _)
StringsUpTo(chars, n) ==
  IF n = 0 THEN {<<>>}
  ELSE LET shorter == StringsUpTo(chars, n - 1)
       IN shorter \cup {Append(s, c) : s \in {t \in shorter : Len(t) = n - 1}, c \in chars}

GrammarIdle ==
  /\ gLevel = -1
  /\ gParent = <<FALSE, Undefined>>
  /\ gFormParent = <<FALSE, Undefined>>
  /\ gParentLevel = -1

RecipesIdle ==
  /\ dbRecipes = {}
  /\ nextRecipeId = 1
  /\ seqBase = Undefined
  /\ seqResult = Undefined

\* A row of dewey_categories, and a DeweyCategory object of the client
Category(id, deweyCode, name, level, parentCode, isActive) ==
  [id |-> id, deweyCode |-> deweyCode, name |-> name, level |-> level,
   parentCode |-> parentCode, isActive |-> isActive]

\* What the last category operation did; every operation fills in its part
NoResult ==
  [target |-> 0, code |-> <<>>, outcome |-> "none", referenced |-> FALSE,
   duplicate |-> FALSE, dbUnchanged |-> TRUE, storeUnchanged |-> TRUE,
   batch |-> <<>>, repeat |-> FALSE, created |-> 0, prevCreated |-> 0,
   importedCount |-> 0, errors |-> 0, clean |-> FALSE,
   updatedCount |-> 0, written |-> 0]

FormIdle ==
  /\ recipeForm = [tags |-> <<>>, deweyDecimal |-> Undefined, tagsBefore |-> <<>>]
  /\ recipeFormDb = [tags |-> <<>>, deweyDecimal |-> Undefined, tagsBefore |-> <<>>]

SelectorIdle ==
  /\ selectedBaseCode = Undefined
  /\ nextSequence = Undefined
  /\ sequenceRequests = {}

\* const cache = new Map() of a server just started, no call under way
CacheIdle ==
  /\ serverCache = [has |-> FALSE, value |-> <<>>]
  /\ serverCalls = {}

\* The store as it is created, no request under way
LoadIdle ==
  /\ deweyCategoriesLoaded = FALSE
  /\ deweyCategoriesLoading = FALSE
  /\ fetchesInFlight = 0

AdminIdle ==
  /\ deweyCategories = <<>>
  /\ dbCategories = {}
  /\ nextCategoryId = 1
  /\ opResult = NoResult

\* The strings the grammar is called with: every string of digits and dots
\* up to MaxCodeLen, the empty one among them, and "0a"
GrammarInit ==
  /\ gCode \in StringsUpTo(GrammarChars, MaxCodeLen) \cup {<<0, LetterA>>}
  /\ GrammarIdle
  /\ lastOp = "init"
  /\ RecipesIdle
  /\ FormIdle
  /\ AdminIdle
  /\ SelectorIdle
  /\ CacheIdle
  /\ LoadIdle

CallGetDeweyLevel ==
  /\ gLevel = -1
  /\ gLevel' = getDeweyLevel(gCode)
  /\ UNCHANGED <<gCode, gParent, gFormParent, gParentLevel, lastOp, rvars, fvars, avars, svars, cvars, lvars>>

CallGetDeweyParentCode ==
  /\ ~gParent[1]
  /\ gParent' = <<TRUE, getDeweyParentCode(gCode)>>
  /\ UNCHANGED <<gCode, gLevel, gFormParent, gParentLevel, lastOp, rvars, fvars, avars, svars, cvars, lvars>>

CallGetDeweyParent ==
  /\ ~gFormParent[1]
  /\ gFormParent' = <<TRUE, getDeweyParent(gCode)>>
  /\ UNCHANGED <<gCode, gLevel, gParent, gParentLevel, lastOp, rvars, fvars, avars, svars, cvars, lvars>>

CallGetDeweyLevelOfParent ==
  /\ gParent[1]
  /\ gParent[2] # Undefined
  /\ gParentLevel = -1
  /\ gParentLevel' = getDeweyLevel(gParent[2])
  /\ UNCHANGED <<gCode, gLevel, gParent, gFormParent, lastOp, rvars, fvars, avars, svars, cvars, lvars>>

GrammarNext ==
  \/ CallGetDeweyLevel
  \/ CallGetDeweyParentCode
  \/ CallGetDeweyParent
  \/ CallGetDeweyLevelOfParent

SpecGrammar == GrammarInit /\ [][GrammarNext]_vars

\* ------------------------------------------------------ sequence allocator
\* The greatest element of a non-empty set of strings in code-point order
maxString(S) == CHOOSE x \in S : \A y \in S : y = x \/ lexLess(y, x)

\* SELECT dewey_decimal FROM recipes WHERE dewey_decimal LIKE '<base>.%'
\*   ORDER BY dewey_decimal DESC LIMIT 1   (the set is empty when no row matches)
selectLastUnderBase(recipes, baseDeweyCode) ==
  LET matching == {r.deweyDecimal : r \in {x \in recipes :
                      startsWith(x.deweyDecimal, baseDeweyCode \o <<Dot>>)}}
  IN IF matching = {} THEN {} ELSE {maxString(matching)}

\* (lastNumber + 1).toString().padStart(3, '0')
nextNumber(lastNumber) ==
  IF lastNumber = NaN THEN NaNString ELSE padStart3(toString(lastNumber + 1))

\* RecipeDB.getNextDeweySequence of the server
getNextDeweySequence(recipes, baseDeweyCode) ==
  LET result == selectLastUnderBase(recipes, baseDeweyCode)
  IN IF result = {} THEN baseDeweyCode \o <<Dot, 0, 0, 1>>
     ELSE LET lastCode == CHOOSE c \in result : TRUE
              parts == split(lastCode, Dot)
              lastNumber == parseInt(parts[Len(parts)])
          IN baseDeweyCode \o <<Dot>> \o nextNumber(lastNumber)

\* The base codes sequences are requested for, and the codes recipes are
\* saved with besides the generated ones: sequence codes already handed out
\* and category codes used as they are ("Use This")
SeqBases == {<<1, Dot, 2>>, <<1>>}
SuffixPool == {<<0, 0, 1>>, <<0, 0, 2>>, <<0, 0, 9>>, <<0, 9, 9>>, <<9, 9, 9>>}
RawCodePool == {<<1, Dot, 2>>, <<1, Dot, 2, Dot, 5>>}
RecipeCodePool ==
  {b \o <<Dot>> \o x : b \in SeqBases, x \in SuffixPool} \cup RawCodePool

SeqInit ==
  /\ gCode = Undefined
  /\ GrammarIdle
  /\ lastOp = "init"
  /\ RecipesIdle
  /\ FormIdle
  /\ AdminIdle
  /\ SelectorIdle
  /\ CacheIdle
  /\ LoadIdle

\* GET /api/dewey/next-sequence/:baseCode
GetNextDeweySequence(baseCode) ==
  /\ seqBase' = baseCode
  /\ seqResult' = getNextDeweySequence(dbRecipes, baseCode)
  /\ lastOp' = "getNextDeweySequence"
  /\ UNCHANGED <<gvars, dbRecipes, nextRecipeId, fvars, avars, svars, cvars, lvars>>

\* POST /api/recipes: RecipeDB.addRecipe stores the code the form holds
AddRecipe(deweyDecimal) ==
  /\ nextRecipeId <= MaxRecipes
  /\ dbRecipes' = dbRecipes \cup {[id |-> nextRecipeId, deweyDecimal |-> deweyDecimal]}
  /\ nextRecipeId' = nextRecipeId + 1
  /\ lastOp' = "addRecipe"
  /\ UNCHANGED <<gvars, seqBase, seqResult, fvars, avars, svars, cvars, lvars>>

\* The recipe form saved with the code "Use Auto Number" put into it
AddRecipeWithGeneratedSequence ==
  /\ seqResult # Undefined
  /\ AddRecipe(seqResult)

\* DELETE /api/recipes/:id
DeleteRecipe(id) ==
  /\ \E r \in dbRecipes : r.id = id
  /\ dbRecipes' = {r \in dbRecipes : r.id # id}
  /\ lastOp' = "deleteRecipe"
  /\ UNCHANGED <<gvars, nextRecipeId, seqBase, seqResult, fvars, avars, svars, cvars, lvars>>

\* The ID columns of the data rows of an uploaded recipe file, 0 for an
\* empty ID
UploadIds == StringsUpTo(0..MaxRecipes, MaxUploadRows) \ {<<>>}

\* POST /api/recipes/upload-csv over rows that have a name.  getRecipeById is
\* async and is not awaited, so existingRecipe is a promise, which is truthy,
\* whenever the row has an ID: such a row goes to updateRecipe, whose UPDATE
\* changes a row only if the id is in the table, and only a row without ID
\* goes to addRecipe.  written counts the rows of the table the upload has
\* added or updated.  The file names ids the table has handed out so far.
UploadCSV(ids) ==
  LET rows == 1..Len(ids)
      toUpdate == {i \in rows : ids[i] # 0}
      toAdd == rows \ toUpdate
      updated == {i \in toUpdate : \E r \in dbRecipes : r.id = ids[i]}
      newIds == nextRecipeId..(nextRecipeId + Cardinality(toAdd) - 1)
  IN /\ \A i \in rows : ids[i] < nextRecipeId
     /\ nextRecipeId + Cardinality(toAdd) - 1 <= MaxRecipes
     /\ dbRecipes' = dbRecipes \cup
                       {[id |-> n, deweyDecimal |-> Undefined] : n \in newIds}
     /\ nextRecipeId' = nextRecipeId + Cardinality(toAdd)
     /\ opResult' = [NoResult EXCEPT
          !.importedCount = Cardinality(toAdd),
          !.updatedCount = Cardinality(toUpdate),
          !.written = Cardinality(toAdd) + Cardinality(updated)]
     /\ lastOp' = "uploadCSV"
     /\ UNCHANGED <<gvars, seqBase, seqResult, fvars, deweyCategories,
                    dbCategories, nextCategoryId, svars, cvars, lvars>>

SeqNext ==
  \/ \E b \in SeqBases : GetNextDeweySequence(b)
  \/ \E c \in RecipeCodePool \cup {Undefined} : AddRecipe(c)
  \/ AddRecipeWithGeneratedSequence
  \/ \E id \in 1..MaxRecipes : DeleteRecipe(id)
  \/ \E ids \in UploadIds : UploadCSV(ids)

SpecSeq == SeqInit /\ [][SeqNext]_vars

\* ------------------------------------------- clients of the allocator
\* Two browsers.  sequenceRequests holds the responses the clients hold: the
\* code GET /api/dewey/next-sequence/:baseCode gave to a client that has put
\* it into its recipe form ("Use Auto Number") and has not yet saved the form
Clients == {1, 2}

\* handleBaseCodeSelect and handleUseGeneratedSequence of one client: the
\* server computes the code from the table as it is now and reserves nothing
ClientGetNextDeweySequence(client, baseCode) ==
  /\ sequenceRequests' =
       {r \in sequenceRequests : r.client # client} \cup
       {[client |-> client, baseCode |-> baseCode, served |-> TRUE,
         nextSequence |-> getNextDeweySequence(dbRecipes, baseCode)]}
  /\ lastOp' = "getNextDeweySequence"
  /\ UNCHANGED <<gvars, rvars, fvars, avars, selectedBaseCode, nextSequence,
                 cvars, lvars>>

\* handleSubmit of the client's form, POST /api/recipes and addRecipe: the
\* code the client was given is stored as it is
ClientAddRecipe(client) ==
  \E r \in sequenceRequests :
    /\ r.client = client
    /\ nextRecipeId <= MaxRecipes
    /\ dbRecipes' = dbRecipes \cup
                      {[id |-> nextRecipeId, deweyDecimal |-> r.nextSequence]}
    /\ nextRecipeId' = nextRecipeId + 1
    /\ sequenceRequests' = sequenceRequests \ {r}
    /\ lastOp' = "addRecipe"
    /\ UNCHANGED <<gvars, seqBase, seqResult, fvars, avars, selectedBaseCode,
                   nextSequence, cvars, lvars>>

ClientsNext ==
  \/ \E c \in Clients, b \in SeqBases : ClientGetNextDeweySequence(c, b)
  \/ \E c \in Clients : ClientAddRecipe(c)
  \/ \E id \in 1..MaxRecipes : DeleteRecipe(id)

SpecClients == SeqInit /\ [][ClientsNext]_vars

\* ------------------------------------------------ hierarchy tag projection
Range(s) == {s[i] : i \in 1..Len(s)}

\* Array.prototype.find by deweyCode: the index of the first match, 0 if none
findByCode(categories, code) ==
  LET I == {i \in 1..Len(categories) : categories[i].deweyCode = code}
  IN IF I = {} THEN 0 ELSE CHOOSE i \in I : \A j \in I : i <= j

\* deweyCode.match(/\.\d{3}$/)
isGeneratedSequence(deweyCode) ==
  LET n == Len(deweyCode)
  IN /\ n >= 4
     /\ deweyCode[n - 3] = Dot
     /\ \A i \in (n - 2)..n : IsDigit(deweyCode[i])

\* buildDeweyHierarchy of the store's form: the while loop from currentCode
\* with the levels collected so far.  The loop follows parentCode links and
\* has no other exit, so it ends exactly when it does not come back to a code
\* it has already put into levels; done = FALSE is the loop that never ends.
RECURSIVE buildDeweyHierarchyFrom(_, _, _)
buildDeweyHierarchyFrom(categories, currentCode, levels) ==
  IF currentCode = Undefined THEN [done |-> TRUE, levels |-> levels]
  ELSE IF currentCode \in Range(levels) THEN [done |-> FALSE, levels |-> levels]
  ELSE LET unshifted == <<currentCode>> \o levels
           i == findByCode(categories, currentCode)
       IN IF i # 0 /\ categories[i].parentCode # Undefined
          THEN buildDeweyHierarchyFrom(categories, categories[i].parentCode, unshifted)
          ELSE [done |-> TRUE, levels |-> unshifted]

buildDeweyHierarchy(categories, deweyCode) ==
  buildDeweyHierarchyFrom(categories, deweyCode, <<>>)

\* The for loop of getDeweyHierarchyTags: one name per level that is found
RECURSIVE namesOfLevels(_, _)
namesOfLevels(categories, levels) ==
  IF levels = <<>> THEN <<>>
  ELSE LET i == findByCode(categories, Head(levels))
       IN (IF i # 0 THEN <<categories[i].name>> ELSE <<>>)
            \o namesOfLevels(categories, Tail(levels))

\* getDeweyHierarchyTags of the store's form
getDeweyHierarchyTags(categories, deweyCode) ==
  IF deweyCode = Undefined THEN [done |-> TRUE, tags |-> <<>>]
  ELSE LET baseCode == IF isGeneratedSequence(deweyCode)
                       THEN SubSeq(deweyCode, 1, lastIndexOf(deweyCode, Dot) - 1)
                       ELSE deweyCode
           h == buildDeweyHierarchy(categories, baseCode)
       IN [done |-> h.done,
           tags |-> IF h.done THEN namesOfLevels(categories, h.levels) ELSE <<>>]

\* buildDeweyHierarchy of the RecipeDB form: the parents by the code's shape
RECURSIVE buildDeweyHierarchyByShape(_)
buildDeweyHierarchyByShape(deweyCode) ==
  LET parentCode == getDeweyParent(deweyCode)
  IN IF deweyCode # Undefined /\ parentCode # Undefined
     THEN buildDeweyHierarchyByShape(parentCode) \o <<deweyCode>>
     ELSE <<deweyCode>>

\* The for loop of the RecipeDB form: `${category.deweyCode} ${category.name}`
RECURSIVE labelsOfLevels(_, _)
labelsOfLevels(categories, levels) ==
  IF levels = <<>> THEN <<>>
  ELSE LET i == findByCode(categories, Head(levels))
       IN (IF i # 0
           THEN <<categories[i].deweyCode \o <<Space>> \o categories[i].name>>
           ELSE <<>>)
            \o labelsOfLevels(categories, Tail(levels))

\* getDeweyHierarchyTags of the RecipeDB form
getDeweyHierarchyLabels(categories, deweyCode) ==
  IF deweyCode = Undefined THEN <<>>
  ELSE labelsOfLevels(categories, buildDeweyHierarchyByShape(deweyCode))

\* The first index from i on that holds no digit
RECURSIVE skipDigits(_, _)
skipDigits(s, i) ==
  IF i <= Len(s) /\ IsDigit(s[i]) THEN skipDigits(s, i + 1) ELSE i

\* The index after the longest (\.\d+)* from j on
RECURSIVE skipDotGroups(_, _)
skipDotGroups(s, j) ==
  IF j + 1 <= Len(s) /\ s[j] = Dot /\ IsDigit(s[j + 1])
  THEN skipDotGroups(s, skipDigits(s, j + 1))
  ELSE j

\* /^\d+(\.\d+)*\s/.test(tag)
looksLikeDeweyTag(tag) ==
  LET d == skipDigits(tag, 1)
      j == skipDotGroups(tag, d)
  IN d > 1 /\ j <= Len(tag) /\ tag[j] = Space

\* ------------------------------------------------ recipe form specification
\* The category lists the form is loaded with: a root with its child, a
\* child whose parent is not in the table, two categories entered as
\* roots of which one has the code of a child of the other, a chain with
\* three decimals at its end and no record for "00", and a root and its
\* child of the same name (only dewey_code is UNIQUE)
FormCategoryLists ==
  { << Category(1, <<0>>, <<LetterA>>, 1, Undefined, TRUE),
       Category(2, <<0, 0>>, <<LetterB>>, 2, <<0>>, TRUE) >>,
    << Category(1, <<0, 0>>, <<LetterB>>, 2, <<0>>, TRUE) >>,
    << Category(1, <<0>>, <<LetterA>>, 1, Undefined, TRUE),
       Category(2, <<0, 0>>, <<LetterB>>, 2, Undefined, TRUE) >>,
    << Category(1, <<0>>, <<LetterA>>, 1, Undefined, TRUE),
       Category(2, <<0, 0, 0>>, <<LetterB>>, 3, <<0, 0>>, TRUE),
       Category(3, <<0, 0, 0, Dot, 0, 0, 1>>, <<LetterN>>, 6, <<0, 0, 0>>, TRUE) >>,
    << Category(1, <<0>>, <<LetterA>>, 1, Undefined, TRUE),
       Category(2, <<0, 0>>, <<LetterA>>, 2, <<0>>, TRUE) >> }

\* What the user types as tags: a text that is also a category name, a text
\* that is no category name, and a text that starts with digits
FreeTagPool == {<<LetterA>>, <<LetterC>>, <<2, Space, LetterC>>}

\* The duplicate-free lists of at most n tags
RECURSIVE TagListsUpTo(_)
TagListsUpTo(n) ==
  IF n = 0 THEN {<<>>}
  ELSE LET shorter == TagListsUpTo(n - 1)
       IN shorter \cup {Append(l, t) : l \in {x \in shorter : Len(x) = n - 1},
                                       t \in FreeTagPool}

FormTagLists == {l \in TagListsUpTo(MaxTags) : Cardinality(Range(l)) = Len(l)}

\* The codes the selector hands to onSelect; Undefined is the cleared selection
FormSelectCodes ==
  {<<0>>, <<0, 0>>, <<0, 0, Dot, 0, 0, 1>>, <<0, 0, 0>>,
   <<0, 0, 0, Dot, 0, 0, 1>>, Undefined}

FormInit ==
  /\ gCode = Undefined
  /\ GrammarIdle
  /\ lastOp = "init"
  /\ RecipesIdle
  /\ deweyCategories \in FormCategoryLists
  /\ dbCategories = {}
  /\ nextCategoryId = 1
  /\ opResult = NoResult
  /\ \E l \in FormTagLists :
       recipeForm = [tags |-> l, deweyDecimal |-> Undefined, tagsBefore |-> l]
  /\ \E l \in FormTagLists :
       recipeFormDb = [tags |-> l, deweyDecimal |-> Undefined, tagsBefore |-> l]
  /\ SelectorIdle
  /\ CacheIdle
  /\ LoadIdle

\* tagsBefore keeps the tags the form held when a classification was selected
\* in a form without one; the operation is named "...:clear" when it clears a
\* classification the form holds
remember(form, deweyCode) ==
  IF deweyCode # Undefined /\ form.deweyDecimal = Undefined
  THEN form.tags ELSE form.tagsBefore

clears(form, deweyCode) == deweyCode = Undefined /\ form.deweyDecimal # Undefined

\* handleDeweySelect of the store's form
HandleDeweySelect(deweyCode) ==
  LET allTags == recipeForm.tags
      allDeweyNames == {deweyCategories[i].name : i \in 1..Len(deweyCategories)}
      IsNonDewey(tag) == tag \notin allDeweyNames
      nonDeweyTags == SelectSeq(allTags, IsNonDewey)
      hierarchy == getDeweyHierarchyTags(deweyCategories, deweyCode)
  IN /\ hierarchy.done
     /\ recipeForm' =
          [tags |-> IF deweyCode # Undefined THEN nonDeweyTags \o hierarchy.tags
                    ELSE nonDeweyTags,
           deweyDecimal |-> deweyCode,
           tagsBefore |-> remember(recipeForm, deweyCode)]
     /\ lastOp' = IF clears(recipeForm, deweyCode)
                  THEN "handleDeweySelect:clear" ELSE "handleDeweySelect"
     /\ UNCHANGED <<gvars, rvars, recipeFormDb, avars, svars, cvars, lvars>>

\* handleDeweySelect of the RecipeDB form
HandleDeweySelectDb(deweyCode) ==
  LET allTags == recipeFormDb.tags
      IsNonDewey(tag) == ~looksLikeDeweyTag(tag)
      nonDeweyTags == SelectSeq(allTags, IsNonDewey)
      hierarchyTags == getDeweyHierarchyLabels(deweyCategories, deweyCode)
  IN /\ recipeFormDb' =
          [tags |-> IF deweyCode # Undefined THEN nonDeweyTags \o hierarchyTags
                    ELSE allTags,
           deweyDecimal |-> deweyCode,
           tagsBefore |-> remember(recipeFormDb, deweyCode)]
     /\ lastOp' = IF clears(recipeFormDb, deweyCode)
                  THEN "handleDeweySelectDb:clear" ELSE "handleDeweySelectDb"
     /\ UNCHANGED <<gvars, rvars, recipeForm, avars, svars, cvars, lvars>>

FormNext ==
  \/ \E c \in FormSelectCodes : HandleDeweySelect(c)
  \/ \E c \in FormSelectCodes : HandleDeweySelectDb(c)

SpecForm == FormInit /\ [][FormNext]_vars

\* The path effect of DeweySelector: the while loop from currentCode with
\* the path collected so far; done = FALSE is the loop that never ends
RECURSIVE selectorPathFrom(_, _, _)
selectorPathFrom(categories, currentCode, path) ==
  LET i == findByCode(categories, currentCode)
  IN IF currentCode = Undefined \/ i = 0 THEN [done |-> TRUE, path |-> path]
     ELSE IF categories[i] \in Range(path) THEN [done |-> FALSE, path |-> path]
     ELSE selectorPathFrom(categories, categories[i].parentCode,
                           <<categories[i]>> \o path)

\* ------------------------------------------------------ recipe form claims
\* The ancestor path as C13 describes it: parentCode links upward, the
\* structural parent where a record has no parentCode, root first, ending
\* at the first code without a record
RECURSIVE PathAsClaimed(_, _)
PathAsClaimed(categories, code) ==
  LET i == findByCode(categories, code)
      up == IF categories[i].parentCode # Undefined
            THEN categories[i].parentCode ELSE getDeweyParent(code)
  IN IF code = Undefined \/ i = 0 THEN <<>>
     ELSE PathAsClaimed(categories, up) \o <<categories[i]>>

\* C14 as stated, after the store's form has handled a selection: the last
\* segment is dropped only from <base>.<3 digits> with base a known category,
\* and a code that is a category's own code yields that category's label
C14_SuffixStripping ==
  LET code == recipeForm.deweyDecimal
      derived == getDeweyHierarchyTags(deweyCategories, code)
      base == SubSeq(code, 1, lastIndexOf(code, Dot) - 1)
      i == findByCode(deweyCategories, code)
      whole == buildDeweyHierarchy(deweyCategories, code)
  IN lastOp = "handleDeweySelect" =>
       /\ i # 0 => deweyCategories[i].name \in Range(derived.tags)
       /\ (isGeneratedSequence(code) /\ findByCode(deweyCategories, base) = 0) =>
            derived.tags = namesOfLevels(deweyCategories, whole.levels)

\* C13 as stated, for the code the form holds: the path DeweySelector shows
\* and the levels buildDeweyHierarchy finds a record for are that path
C13_AncestorPath ==
  LET code == recipeForm.deweyDecimal
      claimed == PathAsClaimed(deweyCategories, code)
      shown == selectorPathFrom(deweyCategories, code, <<>>)
      built == buildDeweyHierarchy(deweyCategories, code)
      IsFound(c) == findByCode(deweyCategories, c) # 0
  IN code # Undefined =>
       /\ shown.done /\ shown.path = claimed
       /\ built.done
       /\ SelectSeq(built.levels, IsFound) =
            [k \in 1..Len(claimed) |-> claimed[k].deweyCode]

\* C15 as stated: after a selection of a non-empty code the list is the
\* free-form tags the form held, none dropped and in their order, followed
\* by the hierarchy tags of the code, in both copies of the form
C15_SelectKeepsFreeTags ==
  /\ (lastOp = "handleDeweySelect" /\ recipeForm.deweyDecimal # Undefined) =>
       recipeForm.tags =
         recipeForm.tagsBefore
           \o getDeweyHierarchyTags(deweyCategories, recipeForm.deweyDecimal).tags
  /\ (lastOp = "handleDeweySelectDb" /\ recipeFormDb.deweyDecimal # Undefined) =>
       recipeFormDb.tags =
         recipeFormDb.tagsBefore
           \o getDeweyHierarchyLabels(deweyCategories, recipeFormDb.deweyDecimal)

\* C16 as stated: after a selection of a category without a sequence suffix
\* of which some ancestors have no record, the tags hold the label of every
\* ancestor that has one, also of those above a level that has none, in both
\* copies of the form
C16_LabelsAcrossGaps ==
  LET Recorded(code) ==
        {c \in Range(buildDeweyHierarchyByShape(code)) :
           findByCode(deweyCategories, c) # 0}
      NameOf(c) == deweyCategories[findByCode(deweyCategories, c)].name
      Selected(form) ==
        /\ findByCode(deweyCategories, form.deweyDecimal) # 0
        /\ ~isGeneratedSequence(form.deweyDecimal)
        /\ Recorded(form.deweyDecimal) #
             Range(buildDeweyHierarchyByShape(form.deweyDecimal))
  IN /\ (lastOp = "handleDeweySelect" /\ Selected(recipeForm)) =>
          \A c \in Recorded(recipeForm.deweyDecimal) :
             NameOf(c) \in Range(recipeForm.tags)
     /\ (lastOp = "handleDeweySelectDb" /\ Selected(recipeFormDb)) =>
          \A c \in Recorded(recipeFormDb.deweyDecimal) :
             (c \o <<Space>> \o NameOf(c)) \in Range(recipeFormDb.tags)

\* C17 as stated: once the classification is cleared the form holds no
\* classification and no tag but free-form ones it held before the selection,
\* in both copies of the form
C17_ClearRemovesHierarchyTags ==
  /\ lastOp = "handleDeweySelect:clear" =>
       /\ recipeForm.deweyDecimal = Undefined
       /\ Range(recipeForm.tags) \subseteq Range(recipeForm.tagsBefore)
  /\ lastOp = "handleDeweySelectDb:clear" =>
       /\ recipeFormDb.deweyDecimal = Undefined
       /\ Range(recipeFormDb.tags) \subseteq Range(recipeFormDb.tagsBefore)

\* C18 as stated: the tag list of the form, which handleSubmit hands to
\* addRecipe as it is, never holds the same tag twice, in both copies of
\* the form
C18_TagsDuplicateFree ==
  /\ Cardinality(Range(recipeForm.tags)) = Len(recipeForm.tags)
  /\ Cardinality(Range(recipeFormDb.tags)) = Len(recipeFormDb.tags)

\* C6 as stated: selecting a classification and then clearing it leaves the
\* tag list exactly as it was before the selection, in both copies of the
\* form and whatever the free-form tags are
C6_RoundTrip ==
  /\ lastOp = "handleDeweySelect:clear" =>
       recipeForm.tags = recipeForm.tagsBefore
  /\ lastOp = "handleDeweySelectDb:clear" =>
       recipeFormDb.tags = recipeFormDb.tagsBefore

\* ------------------------------------------------- category administration
\* The body of a failed response, { error: 'Internal Server Error' }, read as
\* a DeweyCategory: id, deweyCode, name, parentCode and isActive are undefined
ErrorObject == Category(0, Undefined, Undefined, 0, Undefined, FALSE)

\* ORDER BY dewey_code, and sort((a, b) => a.deweyCode.localeCompare(b.deweyCode))
RECURSIVE sortByCode(_)
sortByCode(S) ==
  IF S = {} THEN <<>>
  ELSE LET m == CHOOSE x \in S : \A y \in S : ~lexLess(y.deweyCode, x.deweyCode)
       IN <<m>> \o sortByCode(S \ {m})

\* A uniqueness constraint that looks at active rows only
violatesUniqueAmongActive(rows, id, deweyCode) ==
  \E r \in rows : r.id # id /\ r.isActive /\ r.deweyCode = deweyCode

\* dewey_code TEXT UNIQUE: a row other than id holds the code
violatesUnique(rows, id, deweyCode) ==
  \E r \in rows : r.id # id /\ r.deweyCode = deweyCode

\* POST /api/dewey as the client sees it: RecipeDB.addDeweyCategory of the
\* server inserts the row or throws, the route answers 500 with the error
\* body, and the client returns response.json() whatever the status
addDeweyCategory(rows, nextId, category) ==
  IF violatesUnique(rows, 0, category.deweyCode)
  THEN [rows |-> rows, nextId |-> nextId, category |-> ErrorObject]
  ELSE LET row == Category(nextId, category.deweyCode, category.name,
                           category.level, category.parentCode, category.isActive)
       IN [rows |-> rows \cup {row}, nextId |-> nextId + 1, category |-> row]

\* PUT /api/dewey/:id as the client sees it.  JSON.stringify leaves an
\* undefined parentCode out, so the row keeps its parent_code then.
updateDeweyCategory(rows, id, updates) ==
  LET old == CHOOSE r \in rows : r.id = id
      row == Category(id, updates.deweyCode, updates.name, updates.level,
                      IF updates.parentCode # Undefined
                      THEN updates.parentCode ELSE old.parentCode,
                      updates.isActive)
  IN IF violatesUnique(rows, id, updates.deweyCode)
     THEN [rows |-> rows, category |-> ErrorObject]
     ELSE [rows |-> (rows \ {old}) \cup {row}, category |-> row]

\* getCategoryTree and renderCategoryTree: the positions of the list the page
\* can show, the roots and whatever hangs below a category it shows.  The
\* comparator of getCategoryTree throws when the engine hands it the error
\* object as its first argument; a page that no longer renders takes no
\* further step, which every behaviour here may do at any point.
RECURSIVE renderedFrom(_, _)
renderedFrom(categories, shown) ==
  LET more == shown \cup
        {i \in 1..Len(categories) :
           \E j \in shown : categories[i].parentCode = categories[j].deweyCode}
  IN IF more = shown THEN shown ELSE renderedFrom(categories, more)

rendered(categories) ==
  renderedFrom(categories,
               {i \in 1..Len(categories) : categories[i].parentCode = Undefined})

hasErrorObject(categories) ==
  \E i \in 1..Len(categories) : categories[i].id = 0

\* --------------------------------------------------------------- import
\* The first index from i on that holds neither a digit nor a dot
RECURSIVE skipCodeChars(_, _)
skipCodeChars(s, i) ==
  IF i <= Len(s) /\ (IsDigit(s[i]) \/ s[i] = Dot)
  THEN skipCodeChars(s, i + 1) ELSE i

\* parseCodeAndName: field.match(/^([0-9.]+)\s+(.+)$/) on a trimmed field
parseCodeAndName(field) ==
  LET j == skipCodeChars(field, 1)
  IN IF trim(field) = <<>> THEN [code |-> <<>>, name |-> <<>>]
     ELSE IF j > 1 /\ j < Len(field) /\ field[j] = Space
     THEN [code |-> SubSeq(field, 1, j - 1),
           name |-> trim(SubSeq(field, j + 1, Len(field)))]
     ELSE [code |-> <<>>, name |-> trim(field)]

\* text.split('\n').filter(line => line.trim()), each line split at ',' :
\* the fields of the batch in the order the two loops visit them
RECURSIVE fieldsOfLines(_)
fieldsOfLines(lines) ==
  IF lines = <<>> THEN <<>>
  ELSE (IF trim(Head(lines)) = <<>> THEN <<>> ELSE split(Head(lines), Comma))
         \o fieldsOfLines(Tail(lines))

fieldsOfText(text) == fieldsOfLines(split(text, Newline))

\* An import that never finds a code in the list
existingNever(categories, code) == FALSE

\* categories.find((cat) => cat.deweyCode === code) finds a category
existingCategory(categories, code) == findByCode(categories, code) # 0

\* An import that takes no code for processed
alreadyProcessedNever(seen, code) == FALSE

\* categoriesMap.has(code)
alreadyProcessed(seen, code) == code \in seen

\* The inner loop of processCSVFile over the fields still to visit.
\* categories is the list the handler was created with, run is what the
\* loop has done so far: the codes in categoriesMap, the table, the objects
\* the store was given, importedCount and the rows inserted.
RECURSIVE importFields(_, _, _)
importFields(fields, categories, run) ==
  IF fields = <<>> THEN run
  ELSE LET parsed == parseCodeAndName(trim(Head(fields)))
           code == parsed.code
           rest == Tail(fields)
       IN IF trim(Head(fields)) = <<>> \/ code = <<>> \/ parsed.name = <<>>
          THEN importFields(rest, categories, run)
          ELSE IF alreadyProcessed(run.seen, code)
          THEN importFields(rest, categories, run)
          ELSE IF existingCategory(categories, code)
          THEN importFields(rest, categories,
                            [run EXCEPT !.seen = run.seen \cup {code}])
          ELSE LET added == addDeweyCategory(run.rows, run.nextId,
                              Category(0, code, parsed.name, getDeweyLevel(code),
                                       getDeweyParentCode(code), TRUE))
               IN importFields(rest, categories,
                    [seen |-> run.seen \cup {code},
                     rows |-> added.rows,
                     nextId |-> added.nextId,
                     appended |-> Append(run.appended, added.category),
                     importedCount |-> run.importedCount + 1,
                     created |-> run.created + (added.nextId - run.nextId)])

importText(text, categories, rows, nextId) ==
  importFields(fieldsOfText(text), categories,
               [seen |-> {}, rows |-> rows, nextId |-> nextId, appended |-> <<>>,
                importedCount |-> 0, created |-> 0])

\* ------------------------------------------- administration specification
\* What the administrator types into the category form; the level field is
\* left at the value resetForm gives it
AdminCodes == {<<0>>, <<0, 0>>, <<2>>, <<1, 0>>}
AdminParents == {Undefined, <<0>>}
AdminLevels == {1}
AdminForms ==
  [deweyCode : AdminCodes, name : {<<LetterA>>}, level : AdminLevels,
   parentCode : AdminParents, isActive : BOOLEAN]

\* The files the administrator imports: "0 a,00 b", "2 a\n10 b\n2 c",
\* " c\n00 a" and ".5 a"
ImportTexts ==
  { <<0, Space, LetterA, Comma, 0, 0, Space, LetterB>>,
    <<2, Space, LetterA, Newline, 1, 0, Space, LetterB, Newline, 2, Space, LetterC>>,
    <<Space, LetterC, Newline, 0, 0, Space, LetterA>>,
    <<Dot, 5, Space, LetterA>> }

AdminInit ==
  /\ gCode = Undefined
  /\ GrammarIdle
  /\ lastOp = "init"
  /\ RecipesIdle
  /\ FormIdle
  /\ AdminIdle
  /\ SelectorIdle
  /\ CacheIdle
  /\ LoadIdle

\* handleAddCategory with the store's addDeweyCategory
HandleAddCategory(formData) ==
  LET added == addDeweyCategory(dbCategories, nextCategoryId, formData)
  IN /\ Len(deweyCategories) < MaxStoreLen
     /\ added.nextId <= MaxCategories + 1
     /\ dbCategories' = added.rows
     /\ nextCategoryId' = added.nextId
     /\ deweyCategories' = Append(deweyCategories, added.category)
     /\ opResult' = [NoResult EXCEPT
          !.code = formData.deweyCode,
          !.duplicate = \E r \in dbCategories : r.deweyCode = formData.deweyCode,
          !.outcome = IF added.category = ErrorObject THEN "failed" ELSE "created",
          !.dbUnchanged = (added.rows = dbCategories),
          !.storeUnchanged = FALSE]
     /\ lastOp' = "handleAddCategory"
     /\ UNCHANGED <<gvars, rvars, fvars, svars, cvars, lvars>>

\* startEditing on a category the page shows, then handleUpdateCategory with
\* the store's updateDeweyCategory.  The error object a failed request left
\* in the list has no id: its request finds no row and leaves it as it is.
HandleUpdateCategory(i, formData) ==
  /\ i \in rendered(deweyCategories)
  /\ deweyCategories[i].id # 0
  /\ LET id == deweyCategories[i].id
         updated == updateDeweyCategory(dbCategories, id, formData)
     IN /\ dbCategories' = updated.rows
        /\ deweyCategories' =
             [k \in 1..Len(deweyCategories) |->
                IF deweyCategories[k].id = id THEN updated.category
                ELSE deweyCategories[k]]
        /\ opResult' = [NoResult EXCEPT
             !.target = id,
             !.code = formData.deweyCode,
             !.duplicate = \E r \in dbCategories :
                              r.id # id /\ r.deweyCode = formData.deweyCode,
             !.outcome = IF updated.category = ErrorObject THEN "failed" ELSE "updated",
             !.dbUnchanged = (updated.rows = dbCategories),
             !.storeUnchanged = (updated.category = deweyCategories[i])]
  /\ lastOp' = "handleUpdateCategory"
  /\ UNCHANGED <<gvars, rvars, fvars, nextCategoryId, svars, cvars, lvars>>

\* deleteDeweyCategory of RecipeDB: DELETE FROM dewey_categories WHERE id = ?
deleteDeweyCategory(rows, id) == {r \in rows : r.id # id}

\* handleDeleteCategory (confirmed by the user) on a category the page shows,
\* with the store's deleteDeweyCategory and DELETE /api/dewey/:id
HandleDeleteCategory(i) ==
  /\ i \in rendered(deweyCategories)
  /\ LET category == deweyCategories[i]
         hasChildren == \E k \in 1..Len(deweyCategories) :
                           deweyCategories[k].parentCode = category.deweyCode
         IsOther(cat) == cat.id # category.id
     IN /\ dbCategories' = IF hasChildren THEN dbCategories
                           ELSE deleteDeweyCategory(dbCategories, category.id)
        /\ deweyCategories' = IF hasChildren THEN deweyCategories
                              ELSE SelectSeq(deweyCategories, IsOther)
        /\ opResult' = [NoResult EXCEPT
             !.target = category.id,
             !.code = category.deweyCode,
             !.referenced = \E r \in dbCategories :
                               r.id # category.id /\ r.parentCode = category.deweyCode,
             !.outcome = IF hasChildren THEN "blocked" ELSE "deleted",
             !.dbUnchanged = hasChildren,
             !.storeUnchanged = hasChildren]
  /\ lastOp' = "handleDeleteCategory"
  /\ UNCHANGED <<gvars, rvars, fvars, nextCategoryId, svars, cvars, lvars>>

\* The loop of handleClearAllCategories over the categories still to delete;
\* referenced records that a row went while another row named it as parent
RECURSIVE clearCategories(_, _)
clearCategories(categories, run) ==
  IF categories = <<>> THEN run
  ELSE LET category == Head(categories)
           isReferenced == \E r \in run.rows :
                              /\ r.id # category.id
                              /\ r.parentCode = category.deweyCode
           rows == deleteDeweyCategory(run.rows, category.id)
       IN clearCategories(Tail(categories),
            [rows |-> rows,
             referenced |-> run.referenced \/ (isReferenced /\ rows # run.rows)])

\* handleClearAllCategories (confirmed by the user): every delete request
\* answers { success: true } and the store filters the id out of its list,
\* an entry without id with it
HandleClearAllCategories ==
  LET run == clearCategories(deweyCategories,
                             [rows |-> dbCategories, referenced |-> FALSE])
  IN /\ deweyCategories # <<>>
     /\ dbCategories' = run.rows
     /\ deweyCategories' = <<>>
     /\ opResult' = [NoResult EXCEPT
          !.referenced = run.referenced,
          !.outcome = "deleted",
          !.dbUnchanged = (run.rows = dbCategories)]
     /\ lastOp' = "handleClearAllCategories"
     /\ UNCHANGED <<gvars, rvars, fvars, nextCategoryId, svars, cvars, lvars>>

\* What an import leaves in opResult; repeat says that the operation before
\* it was the same handler with the same text
importResult(handler, text, run, store) ==
  [NoResult EXCEPT
     !.batch = text,
     !.repeat = (lastOp = handler /\ opResult.batch = text),
     !.prevCreated = opResult.created,
     !.created = run.created,
     !.importedCount = run.importedCount,
     !.errors = 0,
     !.clean = ~hasErrorObject(deweyCategories),
     !.dbUnchanged = (run.rows = dbCategories),
     !.storeUnchanged = (store = deweyCategories)]

\* processCSVFile of the page over the store
ProcessCSVFile(text) ==
  LET run == importText(text, deweyCategories, dbCategories, nextCategoryId)
      store == deweyCategories \o run.appended
  IN /\ Len(store) <= MaxStoreLen
     /\ run.nextId <= MaxCategories + 1
     /\ dbCategories' = run.rows
     /\ nextCategoryId' = run.nextId
     /\ deweyCategories' = store
     /\ opResult' = importResult("processCSVFile", text, run, store)
     /\ lastOp' = "processCSVFile"
     /\ UNCHANGED <<gvars, rvars, fvars, svars, cvars, lvars>>

\* handleImportFromCSV of the page over RecipeDB: the same loops, then
\* loadCategories
HandleImportFromCSV(text) ==
  LET run == importText(text, deweyCategories, dbCategories, nextCategoryId)
      store == sortByCode(run.rows)
  IN /\ Len(deweyCategories) + Len(run.appended) <= MaxStoreLen
     /\ run.nextId <= MaxCategories + 1
     /\ dbCategories' = run.rows
     /\ nextCategoryId' = run.nextId
     /\ deweyCategories' = store
     /\ opResult' = importResult("handleImportFromCSV", text, run, store)
     /\ lastOp' = "handleImportFromCSV"
     /\ UNCHANGED <<gvars, rvars, fvars, svars, cvars, lvars>>

\* loadDeweyCategories of a page opened anew: GET /api/dewey
LoadDeweyCategories ==
  /\ deweyCategories' = sortByCode(dbCategories)
  /\ opResult' = [NoResult EXCEPT
       !.storeUnchanged = (sortByCode(dbCategories) = deweyCategories)]
  /\ lastOp' = "loadDeweyCategories"
  /\ UNCHANGED <<gvars, rvars, fvars, dbCategories, nextCategoryId, svars, cvars, lvars>>

AdminNext ==
  \/ \E f \in AdminForms : HandleAddCategory(f)
  \/ \E i \in 1..MaxStoreLen, f \in AdminForms : HandleUpdateCategory(i, f)
  \/ \E i \in 1..MaxStoreLen : HandleDeleteCategory(i)
  \/ \E t \in ImportTexts : ProcessCSVFile(t)
  \/ \E t \in ImportTexts : HandleImportFromCSV(t)
  \/ LoadDeweyCategories
  \/ HandleClearAllCategories

SpecAdmin == AdminInit /\ [][AdminNext]_vars

\* ------------------------------------------------- server cache of the list
\* The server with its cache over the category table, under requests that
\* overlap.  Every RecipeDB function runs up to its await of the query in one
\* step and from the answer of the query to its end in another; a call that
\* is between the two is in serverCalls.
CacheCodes == {<<0>>, <<2>>}

FreeCallIds == (1..MaxServerCalls) \ {c.id : c \in serverCalls}

\* addDeweyCategory up to the answer of the INSERT
ServerAddDeweyCategory(deweyCode) ==
  LET added == addDeweyCategory(dbCategories, nextCategoryId,
                 Category(0, deweyCode, <<LetterA>>, 1, Undefined, TRUE))
  IN /\ added.category # ErrorObject
     /\ added.nextId <= MaxCategories + 1
     /\ \E id \in FreeCallIds :
          serverCalls' = serverCalls \cup
            {[id |-> id, kind |-> "write", result |-> <<>>]}
     /\ dbCategories' = added.rows
     /\ nextCategoryId' = added.nextId
     /\ lastOp' = "addDeweyCategory"
     /\ UNCHANGED <<gvars, rvars, fvars, deweyCategories, opResult, svars,
                    serverCache, lvars>>

\* deleteDeweyCategory up to the answer of the DELETE
ServerDeleteDeweyCategory(categoryId) ==
  /\ \E r \in dbCategories : r.id = categoryId
  /\ \E id \in FreeCallIds :
       serverCalls' = serverCalls \cup
         {[id |-> id, kind |-> "write", result |-> <<>>]}
  /\ dbCategories' = deleteDeweyCategory(dbCategories, categoryId)
  /\ lastOp' = "deleteDeweyCategory"
  /\ UNCHANGED <<gvars, rvars, fvars, deweyCategories, nextCategoryId, opResult,
                 svars, serverCache, lvars>>

\* The rest of addDeweyCategory and deleteDeweyCategory: clearDeweyCache()
ClearDeweyCache(call) ==
  /\ call \in serverCalls
  /\ call.kind = "write"
  /\ serverCache' = [has |-> FALSE, value |-> <<>>]
  /\ serverCalls' = serverCalls \ {call}
  /\ lastOp' = "clearDeweyCache"
  /\ UNCHANGED <<gvars, rvars, fvars, avars, svars, lvars>>

\* getAllDeweyCategories up to its return on a hit, or up to the answer of
\* the SELECT on a miss
ServerGetAllDeweyCategories ==
  /\ IF serverCache.has
     THEN UNCHANGED serverCalls
     ELSE \E id \in FreeCallIds :
            serverCalls' = serverCalls \cup
              {[id |-> id, kind |-> "read", result |-> sortByCode(dbCategories)]}
  /\ lastOp' = IF serverCache.has THEN "getAllDeweyCategories:hit"
               ELSE "getAllDeweyCategories:miss"
  /\ UNCHANGED <<gvars, rvars, fvars, avars, svars, serverCache, lvars>>

\* The rest of getAllDeweyCategories on a miss: cache.set(cacheKey, result)
CacheSet(call) ==
  /\ call \in serverCalls
  /\ call.kind = "read"
  /\ serverCache' = [has |-> TRUE, value |-> call.result]
  /\ serverCalls' = serverCalls \ {call}
  /\ lastOp' = "cacheSet"
  /\ UNCHANGED <<gvars, rvars, fvars, avars, svars, lvars>>

CacheNext ==
  \/ \E c \in CacheCodes : ServerAddDeweyCategory(c)
  \/ \E id \in 1..MaxCategories : ServerDeleteDeweyCategory(id)
  \/ \E call \in serverCalls : ClearDeweyCache(call)
  \/ ServerGetAllDeweyCategories
  \/ \E call \in serverCalls : CacheSet(call)

SpecCache == AdminInit /\ [][CacheNext]_vars

StoreLoadDeweyCategories ==
  /\ IF deweyCategoriesLoaded \/ deweyCategoriesLoading
     THEN /\ UNCHANGED lvars
          /\ lastOp' = "loadDeweyCategories:return"
     ELSE /\ deweyCategoriesLoading' = TRUE
          /\ fetchesInFlight' = fetchesInFlight + 1
          /\ UNCHANGED deweyCategoriesLoaded
          /\ lastOp' = "loadDeweyCategories:fetch"
  /\ UNCHANGED <<gvars, rvars, fvars, avars, svars, cvars>>

\* How GET /api/dewey ends for the client: a 200 with the list, a response
\* that is not OK, or a fetch that rejects
FetchOutcomes == {"ok", "notOk", "networkError"}

\* The client's getAllDeweyCategories and the rest of loadDeweyCategories.
\* A response that is not OK makes the client return [], which the store
\* takes for the list; only a rejected fetch reaches the catch block.
FetchAnswered(outcome) ==
  /\ fetchesInFlight > 0
  /\ fetchesInFlight' = fetchesInFlight - 1
  /\ deweyCategoriesLoading' = FALSE
  /\ deweyCategoriesLoaded' =
       IF outcome = "networkError" THEN deweyCategoriesLoaded ELSE TRUE
  /\ deweyCategories' = CASE outcome = "ok" -> sortByCode(dbCategories)
                           [] outcome = "notOk" -> <<>>
                           [] OTHER -> deweyCategories
  /\ lastOp' = IF outcome = "ok" THEN "fetch:ok"
               ELSE IF outcome = "notOk" THEN "fetch:notOk"
               ELSE "fetch:networkError"
  /\ UNCHANGED <<gvars, rvars, fvars, dbCategories, nextCategoryId, opResult,
                 svars, cvars>>

LoadNext ==
  \/ StoreLoadDeweyCategories
  \/ \E outcome \in FetchOutcomes : FetchAnswered(outcome)
  \/ \E f \in AdminForms : HandleAddCategory(f)
  \/ \E i \in 1..MaxStoreLen : HandleDeleteCategory(i)

SpecLoad == AdminInit /\ [][LoadNext]_vars

\* C30 as stated: at most one fetch is in flight, none is issued once the
\* store is loaded, and a fetch that failed, by a network error or by a
\* response that is not OK, leaves the store not loaded
C30_LoadOnceRetryAfterFailure ==
  /\ fetchesInFlight <= 1
  /\ lastOp = "loadDeweyCategories:fetch" => ~deweyCategoriesLoaded
  /\ lastOp \in {"fetch:notOk", "fetch:networkError"} => ~deweyCategoriesLoaded

\* -------------------------------------------------- administration claims
\* C7 as stated: a delete through the admin page succeeds exactly when no
\* other stored category, active or not, has the category's code as its
\* parentCode, and a blocked delete changes nothing
C7_DeleteGuard ==
  (lastOp = "handleDeleteCategory" /\ opResult.target # 0) =>
     /\ (opResult.outcome = "deleted") <=> ~opResult.referenced
     /\ opResult.outcome = "blocked" =>
          (opResult.dbUnchanged /\ opResult.storeUnchanged)

createdRows ==
  {r \in dbCategories : r.id >= nextCategoryId - opResult.created}

C27_PathTerminates ==
  \A i \in 1..Len(deweyCategories) :
    deweyCategories[i].deweyCode # Undefined =>
      /\ selectorPathFrom(deweyCategories, deweyCategories[i].deweyCode, <<>>).done
      /\ buildDeweyHierarchy(deweyCategories, deweyCategories[i].deweyCode).done

\* C23 as stated: an add or update request that storage has refused leaves
\* the store's category list as it was
C23_FailedRequestLeavesList ==
  (lastOp \in {"handleAddCategory", "handleUpdateCategory"}
     /\ opResult.outcome = "failed") => opResult.storeUnchanged

\* C22 as stated: Clear All deletes no category that another stored
\* category still names as its parent
C22_DeleteFailsWhileReferenced ==
  lastOp = "handleClearAllCategories" => ~opResult.referenced

\* C21 as stated: the count an import reports is the number of categories
\* it has created, and a request that failed is in the error list instead
C21_ReportCountsCreated ==
  lastOp \in {"processCSVFile", "handleImportFromCSV"} =>
    \/ opResult.importedCount = opResult.created
    \/ opResult.errors = opResult.importedCount - opResult.created

\* C19 as stated: every row a bulk import has inserted holds the level and
\* the parent code the code's notation gives, and holds no parent code
\* exactly when its code is a single digit
C19_ImportedLevelAndParent ==
  lastOp \in {"processCSVFile", "handleImportFromCSV"} =>
    \A r \in createdRows :
       /\ r.level = getDeweyLevel(r.deweyCode)
       /\ r.parentCode = getDeweyParentCode(r.deweyCode)
       /\ r.parentCode = Undefined <=> Len(r.deweyCode) = 1

\* The root categories DeweySelector offers: the effect on an empty path
selectorRoots(categories) ==
  LET IsActiveRoot(cat) == cat.parentCode = Undefined /\ cat.isActive
  IN SelectSeq(categories, IsActiveRoot)

\* RecipeDB.getDeweyRootCategories of the server
getDeweyRootCategories(rows) ==
  sortByCode({r \in rows : r.parentCode = Undefined /\ r.isActive})

IsAscendingByCode(l) ==
  \A i \in 1..Len(l) : \A j \in (i + 1)..Len(l) :
     lexLess(l[i].deweyCode, l[j].deweyCode)

\* C9 as stated: the roots offered are exactly the active categories without
\* a parentCode, in ascending order of deweyCode, after every operation
C9_RootsInOrder ==
  /\ Range(getDeweyRootCategories(dbCategories)) =
       {r \in dbCategories : r.parentCode = Undefined /\ r.isActive}
  /\ IsAscendingByCode(getDeweyRootCategories(dbCategories))
  /\ Range(selectorRoots(deweyCategories)) =
       {c \in Range(deweyCategories) : c.parentCode = Undefined /\ c.isActive}
  /\ IsAscendingByCode(selectorRoots(deweyCategories))

\* C10: no two rows of dewey_categories share a deweyCode, and a create or
\* update whose code another row holds, active or not, fails and leaves
\* the table as it is
C10_UniqueCodes ==
  /\ \A r1 \in dbCategories : \A r2 \in dbCategories :
       r1.deweyCode = r2.deweyCode => r1 = r2
  /\ (lastOp \in {"handleAddCategory", "handleUpdateCategory"}
        /\ opResult.duplicate) =>
       (opResult.outcome = "failed" /\ opResult.dbUnchanged)

\* An update to the code of an inactive category has just failed
C10_Witness ==
  /\ lastOp = "handleUpdateCategory"
  /\ opResult.duplicate
  /\ opResult.outcome = "failed"
  /\ \E r \in dbCategories :
       r.deweyCode = opResult.code /\ r.id # opResult.target /\ ~r.isActive

\* ------------------------------------------- auto selector specification
\* The categories the selector is loaded with: the root "000" with the
\* children "000.0" and "000.1", and the childless root "1"
SelectorCategories ==
  << Category(1, <<0, 0, 0>>, <<LetterA>>, 3, Undefined, TRUE),
     Category(2, <<0, 0, 0, Dot, 0>>, <<LetterB>>, 4, <<0, 0, 0>>, TRUE),
     Category(3, <<0, 0, 0, Dot, 1>>, <<LetterC>>, 4, <<0, 0, 0>>, TRUE),
     Category(4, <<1>>, <<LetterA>>, 1, Undefined, TRUE) >>

\* What DeweySelector hands to onSelect: the code of a category of the list
\* (handleCategorySelect, handleFinalSelect) or '' (handleClear)
SelectableCodes ==
  {SelectorCategories[i].deweyCode : i \in 1..Len(SelectorCategories)}
    \cup {Undefined}

SelectorInit ==
  /\ gCode = Undefined
  /\ GrammarIdle
  /\ lastOp = "init"
  /\ RecipesIdle
  /\ FormIdle
  /\ deweyCategories = SelectorCategories
  /\ dbCategories = Range(SelectorCategories)
  /\ nextCategoryId = Len(SelectorCategories) + 1
  /\ opResult = NoResult
  /\ SelectorIdle
  /\ CacheIdle
  /\ LoadIdle

\* deweyCategories.some((cat) => cat.parentCode === deweyCode)
hasChildCategory(categories, deweyCode) ==
  \E i \in 1..Len(categories) : categories[i].parentCode = deweyCode

\* The test of handleBaseCodeSelect for asking for a sequence
canGenerateSequence(categories, deweyCode) ==
  LET i == findByCode(categories, deweyCode)
  IN /\ i # 0
     /\ ~hasChildCategory(categories, deweyCode)
     /\ categories[i].level >= 4

\* handleBaseCodeSelect up to its await: the request goes out, or the offer
\* is withdrawn, or (code not in the list) nothing but the code is set
HandleBaseCodeSelect(deweyCode) ==
  /\ selectedBaseCode' = deweyCode
  /\ IF canGenerateSequence(deweyCategories, deweyCode)
     THEN /\ sequenceRequests' = sequenceRequests \cup
               {[baseCode |-> deweyCode, served |-> FALSE, nextSequence |-> Undefined]}
          /\ UNCHANGED nextSequence
     ELSE /\ nextSequence' = IF findByCode(deweyCategories, deweyCode) # 0
                             THEN Undefined ELSE nextSequence
          /\ UNCHANGED sequenceRequests
  /\ lastOp' = "handleBaseCodeSelect"
  /\ UNCHANGED <<gvars, rvars, fvars, avars, cvars, lvars>>

\* GET /api/dewey/next-sequence/:baseCode at the server
ServeNextSequence(request) ==
  /\ request \in sequenceRequests
  /\ ~request.served
  /\ sequenceRequests' = (sequenceRequests \ {request}) \cup
       {[request EXCEPT !.served = TRUE,
                        !.nextSequence = getNextDeweySequence(dbRecipes, request.baseCode)]}
  /\ lastOp' = "serveNextSequence"
  /\ UNCHANGED <<gvars, rvars, fvars, avars, selectedBaseCode, nextSequence,
                 cvars, lvars>>

\* handleBaseCodeSelect after its await: setNextSequence(sequence)
ReceiveNextSequence(request) ==
  /\ request \in sequenceRequests
  /\ request.served
  /\ nextSequence' = request.nextSequence
  /\ sequenceRequests' = sequenceRequests \ {request}
  /\ lastOp' = "receiveNextSequence"
  /\ UNCHANGED <<gvars, rvars, fvars, avars, selectedBaseCode, cvars, lvars>>

\* handleUseGeneratedSequence, and the recipe saved with the code
UseGeneratedSequence ==
  /\ selectedBaseCode # Undefined
  /\ nextSequence # Undefined
  /\ nextRecipeId <= MaxRecipes
  /\ dbRecipes' = dbRecipes \cup {[id |-> nextRecipeId, deweyDecimal |-> nextSequence]}
  /\ nextRecipeId' = nextRecipeId + 1
  /\ lastOp' = "handleUseGeneratedSequence"
  /\ UNCHANGED <<gvars, seqBase, seqResult, fvars, avars, svars, cvars, lvars>>

SelectorNext ==
  \/ \E c \in SelectableCodes : HandleBaseCodeSelect(c)
  \/ \E r \in sequenceRequests : ServeNextSequence(r)
  \/ \E r \in sequenceRequests : ReceiveNextSequence(r)
  \/ UseGeneratedSequence

SpecSelector == SelectorInit /\ [][SelectorNext]_vars

\* ------------------------------------------------------- selector claims
\* C28 as stated: a sequence that is on offer is the selected base code, a
\* dot and digits
C28_OfferBelongsToSelection ==
  (selectedBaseCode # Undefined /\ nextSequence # Undefined) =>
    /\ startsWith(nextSequence, selectedBaseCode \o <<Dot>>)
    /\ \A i \in (Len(selectedBaseCode) + 2)..Len(nextSequence) :
         IsDigit(nextSequence[i])

\* C11 as stated: a sequence is requested only for a known category without
\* a child and with level >= 4, and while the selected code is a category
\* that is shallower or has a child no sequence is on offer
C11_SequenceOnlyForDeepLeaf ==
  /\ \A r \in sequenceRequests :
       canGenerateSequence(deweyCategories, r.baseCode)
  /\ (/\ findByCode(deweyCategories, selectedBaseCode) # 0
      /\ ~canGenerateSequence(deweyCategories, selectedBaseCode))
       => nextSequence = Undefined

\* ------------------------------------------------ add child specification
\* The least of a non-empty set of numbers
least(S) == CHOOSE n \in S : \A m \in S : n <= m

\* getNextAvailableChildCode of the admin page
getNextAvailableChildCode(categories, parentCode) ==
  LET existingChildren ==
        {categories[i].deweyCode : i \in
           {k \in 1..Len(categories) : categories[k].parentCode = parentCode}}
      prefix == parentCode \o <<Dot>>
      decimalChildren == {code \in existingChildren : startsWith(code, prefix)}
      existingNumbers ==
        {parseInt(SubSeq(code, Len(parentCode) + 2, Len(code))) :
           code \in decimalChildren} \ {NaN}
      freeNumbers == (0..99) \ existingNumbers
      freeDigits == {i \in 0..9 : parentCode \o toString(i) \notin existingChildren}
      freeTens == {i \in 10..99 : parentCode \o toString(i) \notin existingChildren}
  IN IF existingChildren = {} THEN prefix \o <<0>>
     ELSE IF decimalChildren # {}
     THEN IF freeNumbers # {} THEN prefix \o toString(least(freeNumbers))
          ELSE prefix \o <<0>>
     ELSE IF freeDigits # {} THEN parentCode \o toString(least(freeDigits))
     ELSE IF freeTens # {} THEN parentCode \o toString(least(freeTens))
     ELSE parentCode \o <<0>>

\* startAdding(parentCode): the form Add Child opens
startAdding(categories, parentCode) ==
  LET p == findByCode(categories, parentCode)
  IN [deweyCode |-> getNextAvailableChildCode(categories, parentCode),
      isActive |-> TRUE,
      level |-> IF p # 0 THEN categories[p].level + 1 ELSE 1,
      name |-> <<>>,
      parentCode |-> parentCode]

\* The codes typed for a root category
TreeRootCodes == {<<0>>, <<1>>}

TreeInit ==
  /\ gCode = Undefined
  /\ GrammarIdle
  /\ lastOp = "init"
  /\ RecipesIdle
  /\ FormIdle
  /\ AdminIdle
  /\ SelectorIdle
  /\ CacheIdle
  /\ LoadIdle

\* handleAddCategory with the given form; target is the id of the new row
addWithForm(formData, op) ==
  LET added == addDeweyCategory(dbCategories, nextCategoryId, formData)
  IN /\ nextCategoryId <= MaxTreeCategories
     /\ Len(deweyCategories) < MaxTreeCategories
     /\ dbCategories' = added.rows
     /\ nextCategoryId' = added.nextId
     /\ deweyCategories' = Append(deweyCategories, added.category)
     /\ opResult' = [NoResult EXCEPT
          !.target = added.category.id,
          !.code = formData.deweyCode,
          !.outcome = IF added.category = ErrorObject THEN "failed" ELSE "created",
          !.dbUnchanged = (added.rows = dbCategories),
          !.storeUnchanged = FALSE]
     /\ lastOp' = op
     /\ UNCHANGED <<gvars, rvars, fvars, svars, cvars, lvars>>

\* Add Root Category: startAdding() resets the form, the administrator types
\* a code and a name, handleAddCategory
AddRootCategory(deweyCode) ==
  addWithForm([deweyCode |-> deweyCode, isActive |-> TRUE, level |-> 1,
               name |-> <<LetterA>>, parentCode |-> Undefined],
              "addRootCategory")

\* Add Child on a category the page shows: startAdding(category.deweyCode),
\* the administrator types a name, handleAddCategory
AddChildCategory(i) ==
  /\ i \in rendered(deweyCategories)
  /\ deweyCategories[i].id # 0
  /\ addWithForm([startAdding(deweyCategories, deweyCategories[i].deweyCode)
                    EXCEPT !.name = <<LetterA>>],
                 "addChildCategory")

TreeNext ==
  \/ \E c \in TreeRootCodes : AddRootCategory(c)
  \/ \E i \in 1..MaxTreeCategories : AddChildCategory(i)
  \/ \E i \in 1..MaxTreeCategories : HandleDeleteCategory(i)

SpecTree == TreeInit /\ [][TreeNext]_vars

\* C12 as stated: a category created with Add Root Category or with Add Child
\* and the form as it opens has the level getDeweyLevel gives its code
C12_LevelMatchesCode ==
  (lastOp \in {"addRootCategory", "addChildCategory"}
     /\ opResult.outcome = "created") =>
    \A r \in dbCategories :
       r.id = opResult.target => r.level = getDeweyLevel(r.deweyCode)

\* ---------------------------------------------------- allocator claims
\* The three-digit suffixes x for which a recipe holds the code base.x
ThreeDigitSuffixes(recipes, base) ==
  {x \in {SubSeq(r.deweyDecimal, Len(base) + 2, Len(r.deweyDecimal)) : r \in
            {y \in recipes : startsWith(y.deweyDecimal, base \o <<Dot>>)}} :
     Len(x) = 3 /\ \A i \in 1..3 : IsDigit(x[i])}

MaxSuffix(S) == CHOOSE m \in {digitsValue(x) : x \in S} :
                  \A x \in S : digitsValue(x) <= m

\* C26 as stated: no two recipes hold the same code with a sequence suffix
\* when every client saves the code it was given
C26_NoSharedSequence ==
  \A r1, r2 \in dbRecipes :
    (r1.id # r2.id /\ isGeneratedSequence(r1.deweyDecimal)) =>
       r1.deweyDecimal # r2.deweyDecimal

\* C25 as stated: after a recipe upload the rows counted as imported and
\* as updated are together the rows the upload has written
C25_UploadCounts ==
  lastOp = "uploadCSV" =>
    opResult.importedCount + opResult.updatedCount = opResult.written

\* C1 as stated: getNextDeweySequence(base) returns base.001 when no recipe
\* holds a code base.<3 digits>, and otherwise base.(m+1 padded to 3 digits)
\* for the greatest such suffix m, so the result is above every suffix in use.
C1_NextSequence ==
  lastOp = "getNextDeweySequence" =>
    LET S == ThreeDigitSuffixes(dbRecipes, seqBase)
    IN IF S = {}
       THEN seqResult = seqBase \o <<Dot, 0, 0, 1>>
       ELSE /\ seqResult = seqBase \o <<Dot>> \o padStart3(toString(MaxSuffix(S) + 1))
            /\ \A x \in S :
                 digitsValue(x) < digitsValue(SubSeq(seqResult, Len(seqBase) + 2, Len(seqResult)))

\* C2 as stated: when the greatest suffix in use under the base is 999 the
\* allocation fails and hands no code to its caller.
C2_OutOfSequenceSpace ==
  (/\ lastOp = "getNextDeweySequence"
   /\ ThreeDigitSuffixes(dbRecipes, seqBase) # {}
   /\ MaxSuffix(ThreeDigitSuffixes(dbRecipes, seqBase)) = 999)
    => seqResult = Undefined

\* ------------------------------------------------------ grammar claims
Code000 == <<0, 0, 0>>
Code000d0 == <<0, 0, 0, Dot, 0>>
Code000d00 == <<0, 0, 0, Dot, 0, 0>>

DotCount(code) == Cardinality({i \in 1..Len(code) : code[i] = Dot})

\* A classification code as the data model describes it: one to three
\* non-empty groups of digits separated by dots, the third (the sequence
\* suffix) of exactly three digits
IsValidCode(code) ==
  LET parts == split(code, Dot)
  IN /\ code # <<>>
     /\ Len(parts) <= 3
     /\ \A i \in 1..Len(parts) :
          parts[i] # <<>> /\ \A j \in 1..Len(parts[i]) : IsDigit(parts[i][j])
     /\ Len(parts) = 3 => Len(parts[3]) = 3

HasSequenceSuffix(code) == DotCount(code) = 2

\* C3 as stated: for every valid code that has a structural parent, codes
\* carrying a sequence suffix included, the parent's level is the code's
\* level minus one.
C3_Original ==
  (gLevel # -1 /\ gParentLevel # -1 /\ IsValidCode(gCode))
    => gParentLevel = gLevel - 1

\* C3 amended: for every valid code with a structural parent and no sequence
\* suffix (a digit string longer than one, or a decimal code),
\* level(parent(code)) = level(code) - 1; for a code carrying a sequence
\* suffix getDeweyLevel ignores the suffix, so the parent has the same level.
C3_LevelOfParent ==
  (gLevel # -1 /\ gParentLevel # -1 /\ IsValidCode(gCode))
    => IF HasSequenceSuffix(gCode)
       THEN gParentLevel = gLevel
       ELSE gParentLevel = gLevel - 1

C3_Witness ==
  gCode = Code000d00 /\ gLevel = 5 /\ gParent = <<TRUE, Code000d0>> /\ gParentLevel = 4

\* The parent of code as C4 words it
ParentAsClaimed(code, p) ==
  IF includes(code, Dot)
  THEN LET i == lastIndexOf(code, Dot)
           fraction == SubSeq(code, i + 1, Len(code))
       IN /\ Len(fraction) > 1 => p = dropLast(code)
          /\ Len(fraction) = 1 => p = SubSeq(code, 1, i - 1)
  ELSE /\ Len(code) <= 1 => p = Undefined
       /\ Len(code) > 1 => p = dropLast(code)

\* C4: the structural parent drops the fraction's last digit (the fraction
\* and its dot when the fraction is one digit), or the last digit of a pure
\* digit string, and is none for a digit string of length at most 1; the admin
\* page's and the recipe form's copies return the same parent for every code.
C4_ParentCode ==
  /\ gParent[1] => ParentAsClaimed(gCode, gParent[2])
  /\ gFormParent[1] => ParentAsClaimed(gCode, gFormParent[2])
  /\ (gParent[1] /\ gFormParent[1]) => gParent[2] = gFormParent[2]

C4_Witness ==
  /\ gCode = Code000d0
  /\ gParent = <<TRUE, Code000>>
  /\ gFormParent = <<TRUE, Code000>>

\* C24 as stated: a call of getDeweyLevel on the empty code, or on a code
\* with a character that is neither a digit nor a dot, has returned no number
C24_InvalidCodeFormat ==
  (/\ gLevel # -1
   /\ \/ gCode = <<>>
      \/ \E i \in 1..Len(gCode) : ~IsDigit(gCode[i]) /\ gCode[i] # Dot)
    => gLevel \notin Nat

\* C5: getDeweyLevel is the number of digits of a code without a dot and
\* len(whole) + len(fraction) of a code with exactly one dot; "000" has level
\* 3, "000.0" level 4 and "000.00" level 5.
C5_Level ==
  (gLevel # -1 /\ gCode # <<>>)
    => /\ DotCount(gCode) = 0 => gLevel = Len(gCode)
       /\ DotCount(gCode) = 1 =>
            gLevel = (indexOf(gCode, Dot) - 1) + (Len(gCode) - indexOf(gCode, Dot))
       /\ gCode = Code000 => gLevel = 3
       /\ gCode = Code000d0 => gLevel = 4
       /\ gCode = Code000d00 => gLevel = 5

C5_Witness == gCode = Code000d00 /\ gLevel = 5

====
